---- MODULE Spec2Model ----
(***************************************************************************)
(* Model of src/src/strategy.py: the Struct_Prune_Aggregation strategy.    *)
(*                                                                         *)
(* A parameter tensor is modelled by its first dimension only: the         *)
(* sequence of the ORIGINAL channel numbers that are still present, so     *)
(* shape[0] is Len(tensor) and removing channels keeps the survivors'      *)
(* identity visible.  A Parameters object and the list of arrays decoded   *)
(* from it are the same value here.  The ResNet18 state_dict is reduced to *)
(* four tensors, two of which match the prunable-layer pattern.            *)
(***************************************************************************)
EXTENDS Integers, Sequences, FiniteSets

VARIABLES
    accept_failures,            \* FedAvg field read at line 88
    fit_metrics_aggregation_fn, \* FedAvg field read at line 133: NoFn or "fn"
    central_parameters,         \* self.central_parameters (lines 52, 60)
    server_net,                 \* self.server_net (line 54), tensors of the model
    parameters,                 \* the global parameters the server loop holds
    server_round,               \* number of the round in progress (0 before any)
    pc,                         \* which callback the server loop calls next
    warnings,                   \* number of WARNING lines logged so far (line 137)
    last                        \* record of the latest callback invocation

vars == <<accept_failures, fit_metrics_aggregation_fn, central_parameters,
          server_net, parameters, server_round, pc, warnings, last>>

(***************************************************************************)
(* Bounds of the model.                                                    *)
(***************************************************************************)
MaxClients == 2      \* longest results list handed to aggregate_fit
MaxRound == 2        \* rounds the server loop runs
InitChannels == 2    \* output channels of every tensor of the fresh model

\* Python's None where a list of tensors is expected; no list of tensors of
\* the model is empty, and "fn"/NoFn stand for the optional callable.
None == <<>>
NoFn == "None"

(***************************************************************************)
(* Generic helpers.                                                        *)
(***************************************************************************)
Range(s) == {s[i] : i \in DOMAIN s}

RECURSIVE SumSeq(_)
SumSeq(s) == IF s = <<>> THEN 0 ELSE s[1] + SumSeq(Tail(s))

\* Sequences over S of length at most n.
SeqUpTo(S, n) == UNION {[1..k -> S] : k \in 0..n}

(***************************************************************************)
(* The server model (line 54) and its state_dict (line 100).               *)
(***************************************************************************)
\* state_dict keys, in order, each already split at '.' (line 105).
state_dict_keys ==
    << <<"conv1", "weight">>,
       <<"bn1", "weight">>,
       <<"layer1", "0", "conv2", "weight">>,
       <<"linear", "weight">> >>

FreshTensor == [i \in 1..InitChannels |-> i - 1]

\* ResNet18(num_classes=10) as constructed at line 54.
ResNet18 == [i \in DOMAIN state_dict_keys |-> FreshTensor]

\* shape[0] of a tensor (line 112).
Shape0(tensor) == Len(tensor)


(***************************************************************************)
(* Layer selection and proposal keys (lines 104-110).                      *)
(***************************************************************************)
\* re.match("^conv[1-2]+$", name): names are atomic strings here, so the
\* regular expression is given by the names it accepts (up to two digits).
ReMatchConv(name) ==
    name \in {"conv1", "conv2", "conv11", "conv12", "conv21", "conv22"}

\* The test of line 109 on key_list = key.split('.').
IsPrunable(key_list) == ReMatchConv(key_list[Len(key_list) - 1])

\* key[:-1*len(key_list[-1])] + "out" (lines 106 and 110).
ProposalKey(key_list) == SubSeq(key_list, 1, Len(key_list) - 1) \o <<"out">>

\* The values of `index` (from 1) for which line 109 matches, in loop order.
PrunableIndices ==
    SelectSeq([i \in DOMAIN state_dict_keys |-> i],
              LAMBDA i : IsPrunable(state_dict_keys[i]))

(***************************************************************************)
(* The vote tally and the threshold (lines 97-126).                        *)
(***************************************************************************)
\* self.aggregate_frac = 0.3, as the fraction AggregateFracNum/AggregateFracDen.
AggregateFracNum == 3
AggregateFracDen == 10

\* [res.num_examples for _, res in results] (line 98).
NumExamples(results) == [i \in DOMAIN results |-> results[i].num_examples]

\* [json.loads(res.metrics['prune_indices']...) ...] (line 97): the decoded
\* dictionaries; defined when MetricsLookupRaises is false.
ClientMetrics(results) ==
    [i \in DOMAIN results |-> results[i].metrics.prune_indices]

\* Line 97 raises KeyError when a result has no 'prune_indices' metric.
MetricsLookupRaises(results) ==
    \E i \in DOMAIN results : "prune_indices" \notin DOMAIN results[i].metrics

\* Mutant: the weight of the first client is added for every listing client.
ContributionFirstWeight(client_idx, channel_idx, key, client_metrics, num_examples) ==
    IF channel_idx \in client_metrics[client_idx][key]
    THEN num_examples[1]
    ELSE 0

\* Lines 121-123: what client client_idx adds to the channel's cardinality.
\* prune_ids is a JSON list; only membership is asked of it, so it is a set.
Contribution(client_idx, channel_idx, key, client_metrics, num_examples) ==
    IF channel_idx \in client_metrics[client_idx][key]
    THEN num_examples[client_idx]
    ELSE 0

\* Lines 116-123: the loop over the clients, from client_idx on.
RECURSIVE ChannelCardinality(_, _, _, _, _)
ChannelCardinality(client_idx, channel_idx, key, client_metrics, num_examples) ==
    IF client_idx > Len(client_metrics) THEN 0
    ELSE Contribution(client_idx, channel_idx, key, client_metrics, num_examples)
         + ChannelCardinality(client_idx + 1, channel_idx, key,
                              client_metrics, num_examples)

\* Mutant: one channel too many is tallied (range(num_channels + 1)).
CardinalitiesOffByOne(index, server_parameters, client_metrics, num_examples) ==
    [c \in 1..(Len(server_parameters[index]) + 1) |->
        ChannelCardinality(1, c - 1, ProposalKey(state_dict_keys[index]),
                           client_metrics, num_examples)]

\* Lines 112-124: the cardinalities list of the layer at `index`; entry c
\* (from 1) is the cardinality of channel_idx c - 1.
Cardinalities(index, server_parameters, client_metrics, num_examples) ==
    [c \in 1..Shape0(server_parameters[index]) |->
        ChannelCardinality(1, c - 1, ProposalKey(state_dict_keys[index]),
                           client_metrics, num_examples)]

\* Mutant: the comparison is strict.
MeetsThresholdStrict(x, tot_examples) ==
    AggregateFracDen * x > AggregateFracNum * tot_examples

\* x >= self.aggregate_frac * tot_examples (line 126).  The product is a
\* double and x an integer.  The double 0.3 is below 3/10 by less than 2^-54
\* (relative), under half the spacing of doubles, so the product rounds to
\* 3*tot/10 itself when that is an integer and otherwise stays 1/10 away from
\* every integer: the comparison is the exact one of 10*x and 3*tot.
MeetsThreshold(x, tot_examples) ==
    AggregateFracDen * x >= AggregateFracNum * tot_examples

\* Lines 125-126: the enumerate of the comprehension, from channel_idx on.
RECURSIVE PruneIdsFrom(_, _, _)
PruneIdsFrom(channel_idx, cardinalities, tot_examples) ==
    IF channel_idx >= Len(cardinalities) THEN <<>>
    ELSE (IF MeetsThreshold(cardinalities[channel_idx + 1], tot_examples)
          THEN <<channel_idx>> ELSE <<>>)
         \o PruneIdsFrom(channel_idx + 1, cardinalities, tot_examples)

\* Lines 125-126: the channels of one layer whose cardinality meets the threshold.
LayerPruneIds(cardinalities, tot_examples) ==
    PruneIdsFrom(0, cardinalities, tot_examples)

\* The cardinalities lists of all matching layers, in loop order.
AllCardinalities(server_parameters, client_metrics, num_examples) ==
    [j \in DOMAIN PrunableIndices |->
        Cardinalities(PrunableIndices[j], server_parameters,
                      client_metrics, num_examples)]

\* server_prune_ids after the loop of lines 104-126; tot_examples is line 102.
ServerPruneIds(server_parameters, client_metrics, num_examples) ==
    [j \in DOMAIN PrunableIndices |->
        LayerPruneIds(Cardinalities(PrunableIndices[j], server_parameters,
                                    client_metrics, num_examples),
                      SumSeq(num_examples))]

\* client[key] (line 121) raises KeyError when a client's dictionary has no
\* entry for a matching layer; the line runs only if the layer has a channel.
TallyRaises(server_parameters, client_metrics) ==
    \E j \in DOMAIN PrunableIndices :
        /\ Shape0(server_parameters[PrunableIndices[j]]) > 0
        /\ \E i \in DOMAIN client_metrics :
               ProposalKey(state_dict_keys[PrunableIndices[j]])
                   \notin DOMAIN client_metrics[i]

(***************************************************************************)
(* prune_model_with_indices (module prune, imported at line 29).  Its      *)
(* source is not part of the files modelled; it follows the Structural     *)
(* Pruner of the specification: the chosen channels are removed from the   *)
(* layer and from its paired normalization tensor at the same positions,   *)
(* survivors keep their order, and an index that is no channel of the      *)
(* model makes the call fail without pruning anything.                     *)
(***************************************************************************)
\* The tensors that shrink with the layer at `index`: the normalization
\* tensor that follows it in the state_dict.
Dependents(index) ==
    {d \in DOMAIN state_dict_keys :
        /\ d = index + 1
        /\ state_dict_keys[d][Len(state_dict_keys[d]) - 1] \in {"bn1", "bn2"}}

\* The tensor without the channels at the positions (from 0) in ids.
RECURSIVE RemoveChannels(_, _, _)
RemoveChannels(pos, tensor, ids) ==
    IF pos > Len(tensor) THEN <<>>
    ELSE (IF (pos - 1) \in Range(ids) THEN <<>> ELSE <<tensor[pos]>>)
         \o RemoveChannels(pos + 1, tensor, ids)

\* Some index handed to the pruner is no channel of the model's layer.
PrunerRaises(net, server_prune_ids) ==
    \E j \in DOMAIN server_prune_ids :
        \E c \in Range(server_prune_ids[j]) :
            c \notin 0..(Shape0(net[PrunableIndices[j]]) - 1)

\* The model after pruning: list j of server_prune_ids goes to the j-th
\* matching layer.
PruneModelWithIndices(net, server_prune_ids) ==
    [i \in DOMAIN net |->
        IF \E j \in DOMAIN server_prune_ids :
               i = PrunableIndices[j] \/ i \in Dependents(PrunableIndices[j])
        THEN LET j == CHOOSE k \in DOMAIN server_prune_ids :
                          i = PrunableIndices[k]
                          \/ i \in Dependents(PrunableIndices[k])
             IN RemoveChannels(1, net[i], server_prune_ids[j])
        ELSE net[i]]

\* The server loop around the strategy (the Round Orchestrator's DONE state):
\* parameters returned by a round replace the global ones, None keeps them.
NextGlobalParameters(returned, previous) ==
    IF returned = None THEN previous ELSE returned

(***************************************************************************)
(* The callbacks.                                                          *)
(***************************************************************************)
NoCall ==
    [op |-> "none", outcome |-> "none", error |-> "none",
     results |-> <<>>, failures |-> <<>>,
     ret_parameters |-> None, ret_metrics |-> "empty",
     cardinalities |-> <<>>, server_prune_ids |-> <<>>,
     pruner_called |-> FALSE,
     central_before |-> None, server_net_before |-> <<>>]

\* __init__ (lines 45-54).  accept_failures and fit_metrics_aggregation_fn are
\* the inherited FedAvg fields; the deployment sets them before the first round.
\* The global parameters of round 1 are those of the full model.
Init ==
    /\ accept_failures \in BOOLEAN
    /\ fit_metrics_aggregation_fn \in {NoFn, "fn"}
    /\ central_parameters = None
    /\ server_net = ResNet18
    /\ parameters = ResNet18
    /\ server_round = 0
    /\ pc = "configure_fit"
    /\ warnings = 0
    /\ last = NoCall

\* configure_fit (lines 56-76) for the next round: the parameters handed in
\* are stored and sent to the sampled clients in fit_ins.
ConfigureFit(rounds) ==
    /\ pc = "configure_fit"
    /\ server_round < rounds
    /\ server_round' = server_round + 1
    /\ central_parameters' = parameters
    /\ last' = [NoCall EXCEPT !.op = "configure_fit", !.outcome = "returned",
                              !.ret_parameters = parameters,
                              !.central_before = central_parameters,
                              !.server_net_before = server_net]
    /\ pc' = "aggregate_fit"
    /\ UNCHANGED <<accept_failures, fit_metrics_aggregation_fn, server_net,
                   parameters, warnings>>

\* Mutant: failures never stop the aggregation.
IsNoOpIgnoresFailures(results, failures) == results = <<>>

\* The two early returns of lines 85-89.
IsNoOp(results, failures) ==
    \/ results = <<>>
    \/ (~accept_failures /\ failures # <<>>)

\* What one call of aggregate_fit (lines 78-139) does, as a record: how it
\* ended, what it returned, the tally and decision it built, the server model
\* it leaves behind and whether it logged the warning.
AggregateOutcome(results, failures, fn_raises) ==
    LET base == [NoCall EXCEPT !.op = "aggregate_fit",
                               !.results = results, !.failures = failures,
                               !.central_before = central_parameters,
                               !.server_net_before = server_net]
        server_parameters == central_parameters
        client_metrics == ClientMetrics(results)
        num_examples == NumExamples(results)
        ids == ServerPruneIds(server_parameters, client_metrics, num_examples)
        tallied == [base EXCEPT
                      !.cardinalities = AllCardinalities(server_parameters,
                                            client_metrics, num_examples),
                      !.server_prune_ids = ids,
                      !.pruner_called = TRUE]
    IN  IF IsNoOp(results, failures)
        THEN [call |-> [base EXCEPT !.outcome = "returned"],
              net |-> server_net, warned |-> FALSE]
        ELSE IF MetricsLookupRaises(results)
             \/ TallyRaises(server_parameters, client_metrics)
        THEN [call |-> [base EXCEPT !.outcome = "raised", !.error = "KeyError"],
              net |-> server_net, warned |-> FALSE]
        ELSE IF PrunerRaises(server_net, ids)
        THEN [call |-> [tallied EXCEPT !.outcome = "raised",
                                       !.error = "PruneError"],
              net |-> server_net, warned |-> FALSE]
        ELSE IF fit_metrics_aggregation_fn # NoFn /\ fn_raises
        THEN [call |-> [tallied EXCEPT !.outcome = "raised",
                                       !.error = "MetricsAggregationError"],
              net |-> PruneModelWithIndices(server_net, ids),
              warned |-> FALSE]
        ELSE [call |-> [tallied EXCEPT
                          !.outcome = "returned",
                          !.ret_parameters = server_parameters,
                          !.ret_metrics =
                              IF fit_metrics_aggregation_fn # NoFn
                              THEN "aggregated" ELSE "empty"],
              net |-> PruneModelWithIndices(server_net, ids),
              warned |-> (fit_metrics_aggregation_fn = NoFn
                          /\ server_round = 1)]

\* aggregate_fit (lines 78-139) called by the server loop with the round's
\* results and failures; an exception ends the run.
AggregateFit(results, failures, fn_raises) ==
    /\ pc = "aggregate_fit"
    /\ LET out == AggregateOutcome(results, failures, fn_raises)
       IN  /\ last' = out.call
           /\ server_net' = out.net
           /\ warnings' = warnings + (IF out.warned THEN 1 ELSE 0)
           /\ parameters' = IF out.call.outcome = "returned"
                            THEN NextGlobalParameters(out.call.ret_parameters,
                                                      parameters)
                            ELSE parameters
           /\ pc' = IF out.call.outcome = "returned"
                    THEN "configure_fit" ELSE "crashed"
    /\ UNCHANGED <<accept_failures, fit_metrics_aggregation_fn,
                   central_parameters, server_round>>

(***************************************************************************)
(* Inputs: the results clients send.                                       *)
(***************************************************************************)
PruneKeys ==
    {ProposalKey(state_dict_keys[PrunableIndices[j]]) : j \in DOMAIN PrunableIndices}

FirstKey == ProposalKey(state_dict_keys[PrunableIndices[1]])

\* A proposal with S1 for the first matching layer and S2 for the others.
Dict(S1, S2) == [k \in PruneKeys |-> IF k = FirstKey THEN S1 ELSE S2]

\* The smallest index that is no channel of a fresh layer.
OutOfRange == InitChannels

NoMetrics == [k \in {} |-> {}]
WithIndices(d) == [prune_indices |-> d]
FitRes(n, m) == [num_examples |-> n, metrics |-> m]

Weights == {2, 3, 7}

WideMetrics ==
    {WithIndices(Dict({}, {})), WithIndices(Dict({0}, {})),
     WithIndices(Dict({1}, {0})), WithIndices(Dict({0, 1}, {1})),
     WithIndices(Dict({0}, {0, 1})), WithIndices(Dict({0, OutOfRange}, {0})),
     WithIndices([k \in {FirstKey} |-> {0}])}

WideClients == {FitRes(n, m) : n \in Weights, m \in WideMetrics}

NarrowClients ==
    {FitRes(3, WithIndices(Dict({0}, {}))),
     FitRes(7, WithIndices(Dict({0}, {1}))),
     FitRes(7, WithIndices(Dict({1}, {0, 1}))),
     FitRes(2, WithIndices(Dict({}, {0}))),
     FitRes(7, WithIndices(Dict({OutOfRange}, {}))),
     FitRes(3, WithIndices([k \in {FirstKey} |-> {0}])),
     FitRes(3, NoMetrics)}

Failures == {<<>>, <<"exception">>}

\* Whether the configured metrics function raises is an input only when one
\* is configured.
FnRaises == IF fit_metrics_aggregation_fn = NoFn THEN {FALSE} ELSE BOOLEAN

(***************************************************************************)
(* Specifications.                                                         *)
(***************************************************************************)
\* The results lists the server loop may hand over.
NarrowResults == SeqUpTo(NarrowClients, MaxClients)
WideResults == SeqUpTo(WideClients, MaxClients)

Aggregate(Results) ==
    /\ pc = "aggregate_fit"
    /\ \E results \in Results, failures \in Failures, fn_raises \in FnRaises :
           AggregateFit(results, failures, fn_raises)

\* Rounds 1..MaxRound of the server loop.
Next ==
    \/ ConfigureFit(MaxRound)
    \/ Aggregate(NarrowResults)

Spec == Init /\ [][Next]_vars

\* One round, over the wide set of client results.
NextTally ==
    \/ ConfigureFit(1)
    \/ Aggregate(WideResults)

SpecTally == Init /\ [][NextTally]_vars

(***************************************************************************)
(* Vocabulary of the properties.  These are stated over the recorded call, *)
(* with sums over sets of clients, not with the operators of the tally.    *)
(***************************************************************************)
\* The call recorded in `last` is an aggregate_fit that went past the early
\* returns and the tally, and handed a decision to the pruner.
ReachedPruner == last.op = "aggregate_fit" /\ last.pruner_called

\* The recorded call is an aggregate_fit that met one of the no-op conditions.
NoOpCall ==
    /\ last.op = "aggregate_fit"
    /\ (last.results = <<>> \/ (last.failures # <<>> /\ ~accept_failures))

LayerOf(j) == PrunableIndices[j]
KeyOf(j) == ProposalKey(state_dict_keys[PrunableIndices[j]])

\* Channel count of the j-th prunable layer in a list of tensors.
ChannelCount(tensors, j) == Len(tensors[LayerOf(j)])

\* Sum of num_examples over the clients (positions of results) in S.
RECURSIVE WeightOf(_, _)
WeightOf(results, S) ==
    IF S = {} THEN 0
    ELSE LET i == CHOOSE x \in S : TRUE
         IN results[i].num_examples + WeightOf(results, S \ {i})

\* The clients whose proposal for the j-th prunable layer lists channel c.
Supporters(results, j, c) ==
    {i \in DOMAIN results : c \in results[i].metrics.prune_indices[KeyOf(j)]}

ClientOrders(n) ==
    {p \in [1..n -> 1..n] : \A a, b \in 1..n : a # b => p[a] # p[b]}

\* Client i of the call sent a 'prune_indices' metric with an entry for every
\* prunable layer.
WellFormed(results, i) ==
    /\ "prune_indices" \in DOMAIN results[i].metrics
    /\ PruneKeys \subseteq DOMAIN results[i].metrics.prune_indices

\* Client i is well formed and all its indices are channels of the layers.
InRange(results, tensors, i) ==
    /\ WellFormed(results, i)
    /\ \A j \in DOMAIN PrunableIndices :
           results[i].metrics.prune_indices[KeyOf(j)]
               \subseteq 0..(ChannelCount(tensors, j) - 1)

(***************************************************************************)
(* The claims.                                                             *)
(***************************************************************************)

\* C1: in aggregate_fit, for every prunable layer and every channel c of it,
\* c is in the layer's prune decision if and only if the num_examples of the
\* clients that listed c sum to at least 0.3 times the num_examples of all
\* clients of the call; equality prunes, anything below keeps.
C1_ThresholdInclusive ==
    ReachedPruner =>
        \A j \in DOMAIN PrunableIndices :
            \A c \in 0..(ChannelCount(last.central_before, j) - 1) :
                (c \in Range(last.server_prune_ids[j]))
                <=> (10 * WeightOf(last.results, Supporters(last.results, j, c))
                       >= 3 * WeightOf(last.results, DOMAIN last.results))

\* C1 witness: a channel whose supporters weigh exactly 0.3 of the total was
\* pruned, in a call where another client listed nothing for that layer.
C1_Witness ==
    /\ ReachedPruner
    /\ \E j \in DOMAIN PrunableIndices :
         /\ \E c \in Range(last.server_prune_ids[j]) :
                10 * WeightOf(last.results, Supporters(last.results, j, c))
                    = 3 * WeightOf(last.results, DOMAIN last.results)
         /\ \E i \in DOMAIN last.results :
                last.results[i].metrics.prune_indices[KeyOf(j)] = {}

\* C2: an aggregate_fit call with empty results, or with failures while
\* accept_failures is false, returns None and empty metrics and leaves
\* central_parameters, server_net and the global parameters as they were.
C2_NoOpRound ==
    NoOpCall =>
        /\ last.outcome = "returned"
        /\ last.ret_parameters = None
        /\ last.ret_metrics = "empty"
        /\ central_parameters = last.central_before
        /\ server_net = last.server_net_before
        /\ parameters = last.central_before

\* C2 witness: a round with results was dropped because of a failure, after
\* an earlier round had pruned the server model.
C2_Witness ==
    /\ NoOpCall
    /\ last.results # <<>>
    /\ last.failures # <<>>
    /\ server_net # ResNet18

\* C3: on a round that reaches aggregation, the parameters aggregate_fit
\* returns are the pruned ones: each prunable layer has its original channel
\* count minus the size of its decision.
C3_ReturnsPrunedParameters ==
    (ReachedPruner /\ last.outcome = "returned") =>
        \A j \in DOMAIN PrunableIndices :
            ChannelCount(last.ret_parameters, j)
                = ChannelCount(last.central_before, j)
                  - Len(last.server_prune_ids[j])

\* C4: permuting the results list (each proposal staying with its own
\* num_examples) gives the same per-layer prune decision.
C4_OrderIndependent ==
    ReachedPruner =>
        \A p \in ClientOrders(Len(last.results)) :
            LET permuted == [i \in DOMAIN last.results |-> last.results[p[i]]]
            IN ServerPruneIds(last.central_before, ClientMetrics(permuted),
                              NumExamples(permuted))
                   = last.server_prune_ids

\* C4 witness: two clients of different weight, a channel listed by only one
\* of them, and a decision that is not empty.
C4_Witness ==
    /\ ReachedPruner
    /\ Len(last.results) >= 2
    /\ last.results[1].num_examples # last.results[2].num_examples
    /\ \E j \in DOMAIN PrunableIndices :
         /\ last.server_prune_ids[j] # <<>>
         /\ \E c \in 0..(ChannelCount(last.central_before, j) - 1) :
                Cardinality(Supporters(last.results, j, c)) = 1

\* C5: if a client's proposal for a prunable layer holds an index outside
\* [0, channel count), the call reports an error and no decision is produced
\* or applied.
C5_OutOfRangeIsAnError ==
    (/\ last.op = "aggregate_fit"
     /\ ~NoOpCall
     /\ \A i \in DOMAIN last.results : WellFormed(last.results, i)
     /\ \E i \in DOMAIN last.results :
            ~InRange(last.results, last.central_before, i))
    => (last.outcome = "raised" /\ ~last.pruner_called)

\* C6: if exactly one client's proposal data is missing or malformed and the
\* other clients' proposals are well formed, aggregate_fit still completes the
\* round with a decision from the remaining clients.
C6_MalformedIsPerClient ==
    (/\ last.op = "aggregate_fit"
     /\ ~NoOpCall
     /\ Cardinality({i \in DOMAIN last.results :
                        ~WellFormed(last.results, i)}) = 1
     /\ \E i \in DOMAIN last.results : WellFormed(last.results, i))
    => (last.outcome = "returned" /\ last.pruner_called)

\* C7: every aggregate_fit call either returns with the server model
\* reflecting the whole decision, or fails with the server model and
\* central_parameters unchanged.
C7_NoPartialPruning ==
    last.op = "aggregate_fit" =>
        \/ /\ last.outcome = "returned"
           /\ (last.pruner_called =>
                  server_net = PruneModelWithIndices(last.server_net_before,
                                                     last.server_prune_ids))
        \/ /\ last.outcome = "raised"
           /\ server_net = last.server_net_before
           /\ central_parameters = last.central_before

\* C8: with no fit_metrics_aggregation_fn, once a round has reached
\* aggregation the warning has been logged exactly once in total.
C8_WarningExactlyOnce ==
    (/\ fit_metrics_aggregation_fn = NoFn
     /\ ReachedPruner
     /\ last.outcome = "returned")
    => warnings = 1

\* C9: per call, one tally and one decision per prunable layer, in layer
\* order; a tally has one entry per channel, each the summed num_examples of
\* a subset of the round's clients; a decision is strictly ascending and
\* within [0, channel count).
C9_TallyAndDecisionInvariants ==
    ReachedPruner =>
        /\ Len(last.cardinalities) = Len(PrunableIndices)
        /\ Len(last.server_prune_ids) = Len(PrunableIndices)
        /\ \A j \in DOMAIN PrunableIndices :
             LET tally == last.cardinalities[j]
                 ids == last.server_prune_ids[j]
                 n == ChannelCount(last.central_before, j)
             IN /\ Len(tally) = n
                /\ \A c \in DOMAIN tally :
                     /\ \E S \in SUBSET DOMAIN last.results :
                            tally[c] = WeightOf(last.results, S)
                     /\ tally[c] >= 0
                     /\ tally[c] <= WeightOf(last.results, DOMAIN last.results)
                /\ \A k \in DOMAIN ids : ids[k] \in 0..(n - 1)
                /\ \A k \in 1..(Len(ids) - 1) : ids[k] < ids[k + 1]

\* C9 witness: a later round in which some layer's decision holds two
\* channels and some tally entry is a proper, non-zero part of the total.
C9_Witness ==
    /\ ReachedPruner
    /\ server_round >= 2
    /\ \E j \in DOMAIN PrunableIndices :
         /\ Len(last.server_prune_ids[j]) >= 2
         /\ \E c \in DOMAIN last.cardinalities[j] :
              /\ last.cardinalities[j][c] > 0
              /\ last.cardinalities[j][c]
                     < WeightOf(last.results, DOMAIN last.results)

\* C10: whenever the pruner is invoked, each prunable layer has the same
\* channel count in central_parameters as in server_net, so every index of
\* the decision is a channel of server_net.
C10_CentralMatchesServerNet ==
    ReachedPruner =>
        \A j \in DOMAIN PrunableIndices :
            /\ ChannelCount(last.central_before, j)
                   = ChannelCount(last.server_net_before, j)
            /\ \A c \in Range(last.server_prune_ids[j]) :
                   c < ChannelCount(last.server_net_before, j)

====
